---------------------------- MODULE Spec2Model ----------------------------
(***************************************************************************)
(* Model of examples/mav2pcap.py: the resynchronising MAVLink frame        *)
(* extractor (convert_file) and the pcap container writer/reader (class    *)
(* pcap).                                                                  *)
(*                                                                         *)
(* The script runs under Python 2 with python-future (lines 17-23; line 64 *)
(* is not valid Python 3).  Bytes are integers 0..255 and a byte string is *)
(* a sequence of bytes; a one-character byte string is the byte itself.    *)
(* chr is the chr of line 20, which gives a unicode character, not a byte. *)
(* Python slices are 0-based and clamp at the end of the string; sequences *)
(* here are 1-based, so data[k] of the script is data[k+1] here.           *)
(***************************************************************************)
EXTENDS Integers, Sequences, FiniteSets, TLC

VARIABLES
    pc,            \* position of the script: see the actions
    endian,        \* the platform's native byte order, "<" or ">" (pcap._endian '=')
    input,         \* the bytes mavlink_file.read() returns
    stream,        \* pcap.stream: the bytes of the output file
    data,          \* convert_file: the unconsumed rest of the input
    i,             \* convert_file: loop iteration counter
    done,          \* convert_file: loop flag
    skipped_char,  \* convert_file: <<>> for None, <<b>> for the stowed byte
    junk,          \* convert_file: last junk string built
    cnt_ok,        \* convert_file: counters
    cnt_junk,
    cnt_crc,
    out,           \* log of the write_packet calls, in order
    err,           \* the exception that ended the script, "" if none
    prev           \* the write_packet log of the previous run of the script

vars == << pc, endian, input, stream, data, i, done, skipped_char, junk,
           cnt_ok, cnt_junk, cnt_crc, out, err, prev >>

conv == << data, i, done, skipped_char, junk, cnt_ok, cnt_junk, cnt_crc >>

(***************************************************************************)
(* Bounds of the model.                                                    *)
(***************************************************************************)
MaxPieces == 3      \* an input file is a concatenation of at most this many pieces
MaxUnits == 2       \* container round trip: at most this many records written

(***************************************************************************)
(* Program constants.                                                      *)
(***************************************************************************)
MAVLINK_MAGIC == 254

write_junk == TRUE

\* None of skipped_char
None == << >>

\* the seed table without its last entry
MAVLINK_MESSAGE_CRCS_Short ==
  <<
    50, 124, 137, 0, 237, 217, 104, 119, 0, 0, 0, 89, 0, 0, 0, 0,
    0, 0, 0, 0, 214, 159, 220, 168, 24, 23, 170, 144, 67, 115, 39, 246,
    185, 104, 237, 244, 242, 212, 9, 254, 230, 28, 28, 132, 221, 232, 11, 153,
    41, 39, 214, 223, 141, 33, 15, 3, 100, 24, 239, 238, 30, 240, 183, 130,
    130, 0, 148, 21, 0, 243, 124, 0, 0, 0, 20, 0, 152, 143, 0, 0,
    127, 106, 0, 0, 0, 0, 0, 0, 0, 231, 183, 63, 54, 0, 0, 0,
    0, 0, 0, 0, 175, 102, 158, 208, 56, 93, 0, 0, 0, 0, 235, 93,
    124, 0, 0, 0, 0, 0, 0, 0, 0, 0, 0, 0, 0, 0, 0, 0,
    0, 0, 0, 0, 0, 0, 0, 0, 0, 0, 0, 0, 0, 0, 0, 0,
    0, 0, 0, 42, 241, 15, 134, 219, 208, 188, 84, 22, 19, 21, 134, 0,
    78, 68, 189, 127, 111, 21, 21, 144, 1, 234, 73, 181, 22, 0, 0, 0,
    0, 0, 0, 0, 0, 0, 0, 0, 0, 0, 0, 0, 0, 0, 0, 0,
    0, 0, 0, 0, 0, 0, 0, 0, 0, 0, 0, 0, 0, 0, 0, 0,
    0, 0, 0, 0, 0, 0, 0, 0, 0, 0, 0, 0, 0, 0, 0, 0,
    0, 0, 0, 0, 0, 0, 0, 0, 0, 0, 0, 0, 0, 0, 0, 0,
    0, 0, 0, 0, 0, 0, 0, 0, 0, 204, 49, 170, 44, 83, 46
  >>

MAVLINK_MESSAGE_CRCS ==
  <<
    50, 124, 137, 0, 237, 217, 104, 119, 0, 0, 0, 89, 0, 0, 0, 0,
    0, 0, 0, 0, 214, 159, 220, 168, 24, 23, 170, 144, 67, 115, 39, 246,
    185, 104, 237, 244, 242, 212, 9, 254, 230, 28, 28, 132, 221, 232, 11, 153,
    41, 39, 214, 223, 141, 33, 15, 3, 100, 24, 239, 238, 30, 240, 183, 130,
    130, 0, 148, 21, 0, 243, 124, 0, 0, 0, 20, 0, 152, 143, 0, 0,
    127, 106, 0, 0, 0, 0, 0, 0, 0, 231, 183, 63, 54, 0, 0, 0,
    0, 0, 0, 0, 175, 102, 158, 208, 56, 93, 0, 0, 0, 0, 235, 93,
    124, 0, 0, 0, 0, 0, 0, 0, 0, 0, 0, 0, 0, 0, 0, 0,
    0, 0, 0, 0, 0, 0, 0, 0, 0, 0, 0, 0, 0, 0, 0, 0,
    0, 0, 0, 42, 241, 15, 134, 219, 208, 188, 84, 22, 19, 21, 134, 0,
    78, 68, 189, 127, 111, 21, 21, 144, 1, 234, 73, 181, 22, 0, 0, 0,
    0, 0, 0, 0, 0, 0, 0, 0, 0, 0, 0, 0, 0, 0, 0, 0,
    0, 0, 0, 0, 0, 0, 0, 0, 0, 0, 0, 0, 0, 0, 0, 0,
    0, 0, 0, 0, 0, 0, 0, 0, 0, 0, 0, 0, 0, 0, 0, 0,
    0, 0, 0, 0, 0, 0, 0, 0, 0, 0, 0, 0, 0, 0, 0, 0,
    0, 0, 0, 0, 0, 0, 0, 0, 0, 204, 49, 170, 44, 83, 46, 0
  >>

(***************************************************************************)
(* Byte-string helpers.                                                    *)
(***************************************************************************)
\* s[a:b] of Python for 0 <= a, 0 <= b: clamps at the end of s
Slice(s, a, b) ==
    LET hi == IF b < Len(s) THEN b ELSE Len(s)
    IN  IF a >= hi THEN << >> ELSE SubSeq(s, a + 1, hi)

\* s[a:] of Python for 0 <= a
SliceFrom(s, a) == Slice(s, a, Len(s))

\* bitwise exclusive or of two naturals
RECURSIVE Xor(_, _)
Xor(a, b) ==
    IF a = 0 THEN b
    ELSE IF b = 0 THEN a
    ELSE (((a % 2) + (b % 2)) % 2) + 2 * Xor(a \div 2, b \div 2)

(***************************************************************************)
(* mavutil.x25crc: the MAVLink CRC-16 (X.25 polynomial, initial value      *)
(* 0xFFFF, no final inversion), byte at a time.                            *)
(***************************************************************************)
X25_INIT_CRC == 65535

\* x25crc.accumulate for one byte
AccumulateByte(accum, b) ==
    LET t1 == Xor(b, accum % 256)
        tmp == Xor(t1, (t1 * 16) % 256)
    IN  Xor(Xor(accum \div 256, tmp * 256), Xor(tmp * 8, tmp \div 16)) % 65536

\* x25crc.accumulate for a byte string: the bytes in order, first half then
\* second half (the test of first only makes TLC compute it before going on)
RECURSIVE Accumulate(_, _)
Accumulate(accum, buf) ==
    IF Len(buf) = 0 THEN accum
    ELSE IF Len(buf) = 1 THEN AccumulateByte(accum, buf[1])
    ELSE LET half == Len(buf) \div 2
             first == Accumulate(accum, SubSeq(buf, 1, half))
         IN  IF first >= 0
             THEN Accumulate(first, SubSeq(buf, half + 1, Len(buf)))
             ELSE first

\* x25crc(buf).crc
x25crc(buf) == Accumulate(X25_INIT_CRC, buf)

(***************************************************************************)
(* struct.pack / struct.unpack of one unsigned 32-bit field ('I') in byte  *)
(* order e ("<" little-endian, ">" big-endian).                            *)
(***************************************************************************)
Pack32(e, v) ==
    LET le == << v % 256, (v \div 256) % 256, (v \div 65536) % 256,
                 (v \div 16777216) % 256 >>
    IN  IF e = "<" THEN le ELSE << le[4], le[3], le[2], le[1] >>

Unpack32(e, b) ==
    IF e = "<"
    THEN b[1] + 256 * b[2] + 65536 * b[3] + 16777216 * b[4]
    ELSE b[4] + 256 * b[3] + 65536 * b[2] + 16777216 * b[1]

\* struct.pack of one unsigned 16-bit field ('H')
Pack16(e, v) ==
    IF e = "<" THEN << v % 256, v \div 256 >> ELSE << v \div 256, v % 256 >>

\* ULInt16('crc').parse of a 2-byte string: little-endian
ULInt16(b) == b[1] + 256 * b[2]

(***************************************************************************)
(* class pcap                                                              *)
(***************************************************************************)
\* pcap._MAGIC = 0xA1B2C3D4, as its four bytes, most significant first
MAGIC_BYTES == << 161, 178, 195, 212 >>

SNAPLEN == 65535
LINKTYPE == 147
VERSION_MAJOR == 2
VERSION_MINOR == 4

\* pcap.__init__, write mode: the 24 bytes struct.pack(endian + 'IHHIIII', ...) gives
PcapHeader(e) ==
    (IF e = "<"
       THEN << MAGIC_BYTES[4], MAGIC_BYTES[3], MAGIC_BYTES[2], MAGIC_BYTES[1] >>
       ELSE MAGIC_BYTES)
    \o Pack16(e, VERSION_MAJOR) \o Pack16(e, VERSION_MINOR)
    \o Pack32(e, 0) \o Pack32(e, 0)
    \o Pack32(e, SNAPLEN) \o Pack32(e, LINKTYPE)

\* pcap.write: packet = <<header, datum>>, header = <<tv_sec, tv_usec, length>>;
\* the bytes appended to the stream
PcapWrite(e, packet) ==
    LET header == packet[1]
        datum  == packet[2]
        tv_sec == header[1]
        tv_usec == header[2]
        length == header[3]
    IN  Pack32(e, tv_sec) \o Pack32(e, tv_usec) \o Pack32(e, length)
        \o Pack32(e, Len(datum)) \o datum

\* pcap.read at stream position pos: the value returned (<<>> for None) and
\* the new position
PcapRead(e, strm, pos) ==
    LET hdr == Slice(strm, pos, pos + 16)
    IN  IF hdr = << >>
        THEN [ret |-> << >>, pos |-> pos]
        ELSE LET tv_sec  == Unpack32(e, SubSeq(hdr, 1, 4))
                 tv_usec == Unpack32(e, SubSeq(hdr, 5, 8))
                 caplen  == Unpack32(e, SubSeq(hdr, 9, 12))
                 length  == Unpack32(e, SubSeq(hdr, 13, 16))
                 datum   == Slice(strm, pos + 16, pos + 16 + caplen)
             IN  [ret |-> << << tv_sec, tv_usec, length >>, datum >>,
                  pos |-> pos + 16 + Len(datum)]

(***************************************************************************)
(* Functions of the script.                                                *)
(***************************************************************************)
\* find_next_frame: data.find('\xfe'), 0-based, -1 when there is none
find_next_frame(d) ==
    LET hits == { k \in 1..Len(d) : d[k] = MAVLINK_MAGIC }
    IN  IF hits = {} THEN 0 - 1
        ELSE (CHOOSE k \in hits : \A m \in hits : k <= m) - 1

\* parse_header: Struct(Const(Byte magic), plength, sequence, sysid, compid,
\* msgid).parse(data[0:6]).  The fields are read in order: a missing byte
\* raises FieldError, a first byte other than MAVLINK_MAGIC raises ConstError.
parse_header(d) ==
    LET h == Slice(d, 0, 6)
    IN  IF Len(h) = 0 THEN [error |-> "FieldError"]
        ELSE IF h[1] # MAVLINK_MAGIC THEN [error |-> "ConstError"]
        ELSE IF Len(h) < 6 THEN [error |-> "FieldError"]
        ELSE [error |-> "", magic |-> h[1], plength |-> h[2], sequence |-> h[3],
              sysid |-> h[4], compid |-> h[5], msgid |-> h[6]]

\* write_packet: the record appended to the write log
Unit(number, d, flags, pkt_length) ==
    [number |-> number, data |-> d, flags |-> flags, pkt_length |-> pkt_length]

\* write_packet giving the length of the whole record, its 16-byte header
\* included, as the packet length
write_packet_RecordLength(e, number, d, flags, pkt_length) ==
    PcapWrite(e, << << number, flags, pkt_length + 16 >>, d >>)

\* write_packet: the bytes pcap_file.write appends to the stream
write_packet(e, number, d, flags, pkt_length) ==
    PcapWrite(e, << << number, flags, pkt_length >>, d >>)

\* convert_file line 175
PktLength(payload_len) == 6 + payload_len + 2

\* line 20: chr of builtins (python-future), on Python 2 unichr: the unicode
\* character with code point n
chr(n) == [codepoint |-> n]

\* x25crc.accumulate handed the one-character string chr gives (line 186).
\* mavutil is not among these sources; the specification (4.1 step 4) has
\* this call as one more accumulation step over the single seed byte, with
\* no error: the byte is the character's code point
AccumulateChr(accum, u) == AccumulateByte(accum, u.codepoint)

\* convert_file lines 185-191: crc_flag of the frame at the start of d
CrcFlag(d, header) ==
    LET payload_len == header.plength
        pkt_length == PktLength(payload_len)
        pkt_crc == ULInt16(Slice(d, pkt_length - 2, pkt_length))
        cc == AccumulateChr(x25crc(Slice(d, 1, 6 + payload_len)),
                            chr(MAVLINK_MESSAGE_CRCS[header.msgid + 1]))
    IN  IF cc # pkt_crc THEN 1 ELSE 0

(***************************************************************************)
(* Input files: concatenations of at most MaxPieces pieces.  The pieces    *)
(* are single junk and sentinel bytes, well-formed frames, a frame with a  *)
(* wrong checksum, a frame with the sentinel in its payload, and a header  *)
(* that claims more payload than follows.                                  *)
(***************************************************************************)
\* a well-formed MAVLink 1.0 frame: header, payload, little-endian checksum
MkFrame(payload, msgid) ==
    LET hdr == << MAVLINK_MAGIC, Len(payload), 0, 1, 1, msgid >>
        crc == Accumulate(x25crc(Tail(hdr) \o payload),
                          << MAVLINK_MESSAGE_CRCS[msgid + 1] >>)
    IN  hdr \o payload \o << crc % 256, crc \div 256 >>

\* frame f with the byte at 1-based position k replaced by another value
Corrupt(f, k) == [f EXCEPT ![k] = (f[k] + 1) % 256]

Frame0 == MkFrame(<< >>, 0)
Frame2 == MkFrame(<< 17, 34 >>, 0)
FrameSof == MkFrame(<< MAVLINK_MAGIC >>, 1)
FrameBadCrc == Corrupt(Frame0, Len(Frame0))

\* a well-formed frame with no payload for a message id whose seed is 0,
\* built without the seed table: the highest id a header can carry
SeedlessId == 256 - 1
FrameSeedless ==
    LET body == << 0, 0, 1, 1, SeedlessId >>
        crc == Accumulate(x25crc(body), << 0 >>)
    IN  << MAVLINK_MAGIC >> \o body \o << crc % 256, crc \div 256 >>

\* two sentinels and 261 zero bytes: the first candidate announces a payload
\* of 254 bytes (6 + 254 + 2 bytes in all) and is followed by a zero, and the
\* candidate after it announces no payload and is followed by a zero too
FalseStartLen == 6 + (MAVLINK_MAGIC + 2) + 1
FalseStart ==
    [k \in 1..FalseStartLen |-> IF k <= 2 THEN MAVLINK_MAGIC ELSE 0]

Pieces ==
    { << 0 >>, << MAVLINK_MAGIC >>, Frame0, Frame2, FrameSof, FrameBadCrc,
      << MAVLINK_MAGIC, 5, 0, 1, 1, 0 >>, FrameSeedless, FalseStart }

RECURSIVE Concats(_)
Concats(n) ==
    IF n = 0 THEN { << >> }
    ELSE LET shorter == Concats(n - 1)
         IN  shorter \cup { s \o p : s \in shorter, p \in Pieces }

Inputs == Concats(MaxPieces)

(***************************************************************************)
(* The script: lines 227-231 and convert_file.                             *)
(***************************************************************************)
Init ==
    /\ pc = "start"
    /\ endian \in { "<", ">" }
    /\ input \in Inputs
    /\ stream = << >>
    /\ data = << >>
    /\ i = 0
    /\ done = FALSE
    /\ skipped_char = None
    /\ junk = << >>
    /\ cnt_ok = 0
    /\ cnt_junk = 0
    /\ cnt_crc = 0
    /\ out = << >>
    /\ err = ""
    /\ prev = << >>

\* OpenPcap taking the read branch: no header is written
OpenPcap_NoHeader ==
    /\ pc = "start"
    /\ pc' = "convert"
    /\ UNCHANGED << endian, input, stream, conv, out, err, prev >>

\* line 229: pcap(output_file, 'wb', linktype=147) on the empty output file
OpenPcap ==
    /\ pc = "start"
    /\ stream' = stream \o PcapHeader(endian)
    /\ pc' = "convert"
    /\ UNCHANGED << endian, input, conv, out, err, prev >>

\* lines 147-155: read the whole file, initialise the locals
ReadInput ==
    /\ pc = "convert"
    /\ data' = input
    /\ i' = 0
    /\ done' = FALSE
    /\ skipped_char' = None
    /\ junk' = << >>
    /\ cnt_ok' = 0
    /\ cnt_junk' = 0
    /\ cnt_crc' = 0
    /\ pc' = "loop"
    /\ UNCHANGED << endian, input, stream, out, err, prev >>

\* lines 164-166: the junk string written by this iteration
JunkString(skipped, old_junk, d, next_sof) ==
    IF skipped # None THEN skipped \o Slice(d, 0, next_sof) ELSE old_junk

\* lines 157-170, next_sof > 0: write the junk before the next sentinel
SkipJunk ==
    /\ pc = "loop"
    /\ ~done
    /\ LET next_sof == find_next_frame(data)
           j == JunkString(skipped_char, junk, data, next_sof)
       IN  /\ next_sof > 0
           /\ i' = i + 1
           /\ IF write_junk
              THEN /\ junk' = j
                   /\ skipped_char' = None
                   /\ stream' = stream \o write_packet(endian, i', j, 3, Len(j))
                   /\ out' = Append(out, Unit(i', j, 3, Len(j)))
              ELSE UNCHANGED << junk, skipped_char, stream, out >>
           /\ data' = SliceFrom(data, next_sof)
           /\ cnt_junk' = cnt_junk + 1
    /\ pc' = "frame"
    /\ UNCHANGED << endian, input, done, cnt_ok, cnt_crc, err, prev >>

\* NoJunk counting only the iterations that skip junk
NoJunk_NoCount ==
    /\ pc = "loop"
    /\ ~done
    /\ find_next_frame(data) <= 0
    /\ pc' = "frame"
    /\ UNCHANGED << endian, input, stream, data, i, done, skipped_char, junk,
                    cnt_ok, cnt_junk, cnt_crc, out, err, prev >>

\* lines 157-161, next_sof <= 0: nothing to skip
NoJunk ==
    /\ pc = "loop"
    /\ ~done
    /\ find_next_frame(data) <= 0
    /\ i' = i + 1
    /\ pc' = "frame"
    /\ UNCHANGED << endian, input, stream, data, done, skipped_char, junk,
                    cnt_ok, cnt_junk, cnt_crc, out, err, prev >>

\* line 173: parse_header raises outside any try block; the script dies
HeaderError ==
    /\ pc = "frame"
    /\ parse_header(data).error # ""
    /\ err' = parse_header(data).error
    /\ pc' = "crashed"
    /\ UNCHANGED << endian, input, stream, conv, out, prev >>

\* NoMoreData writing what is there of the frame before it ends the pass
NoMoreData_EmitsPartial ==
    /\ pc = "frame"
    /\ LET header == parse_header(data)
       IN  /\ header.error = ""
           /\ Len(Slice(data, PktLength(header.plength) - 2,
                        PktLength(header.plength))) < 2
    /\ stream' = stream \o write_packet(endian, i, data, 0, Len(data))
    /\ out' = Append(out, Unit(i, data, 0, Len(data)))
    /\ done' = TRUE
    /\ pc' = "loop"
    /\ UNCHANGED << endian, input, data, i, skipped_char, junk,
                    cnt_ok, cnt_junk, cnt_crc, err, prev >>

\* lines 176-181: the checksum field is not all there, FieldError, done
NoMoreData ==
    /\ pc = "frame"
    /\ LET header == parse_header(data)
       IN  /\ header.error = ""
           /\ Len(Slice(data, PktLength(header.plength) - 2,
                        PktLength(header.plength))) < 2
    /\ done' = TRUE
    /\ pc' = "loop"
    /\ UNCHANGED << endian, input, stream, data, i, skipped_char, junk,
                    cnt_ok, cnt_junk, cnt_crc, out, err, prev >>

\* the frame at the start of data is all there (lines 173-177 passed)
FrameComplete(d) ==
    /\ parse_header(d).error = ""
    /\ Len(d) >= PktLength(parse_header(d).plength)

\* lines 186, 192, 214-216: IndexError on the seed lookup or on the byte
\* after the frame
RaisesIndexError(d) ==
    \/ parse_header(d).msgid >= Len(MAVLINK_MESSAGE_CRCS)
    \/ PktLength(parse_header(d).plength) >= Len(d)

\* NoMorePackets writing the complete frame at the end of the buffer before
\* it ends the pass
NoMorePackets_EmitsLast ==
    /\ pc = "frame"
    /\ FrameComplete(data)
    /\ RaisesIndexError(data)
    /\ LET header == parse_header(data)
           pkt == Slice(data, 0, PktLength(header.plength))
           crc_flag == CrcFlag(data, header)
       IN  /\ stream' = stream \o write_packet(endian, i, pkt, crc_flag, Len(pkt))
           /\ out' = Append(out, Unit(i, pkt, crc_flag, Len(pkt)))
           /\ data' = SliceFrom(data, Len(pkt))
           /\ IF crc_flag # 0
              THEN cnt_crc' = cnt_crc + 1 /\ UNCHANGED cnt_ok
              ELSE cnt_ok' = cnt_ok + 1 /\ UNCHANGED cnt_crc
    /\ done' = TRUE
    /\ pc' = "loop"
    /\ UNCHANGED << endian, input, i, skipped_char, junk, cnt_junk,
                    err, prev >>

\* lines 184-192, 214-216: IndexError, done
NoMorePackets ==
    /\ pc = "frame"
    /\ FrameComplete(data)
    /\ RaisesIndexError(data)
    /\ done' = TRUE
    /\ pc' = "loop"
    /\ UNCHANGED << endian, input, stream, data, i, skipped_char, junk,
                    cnt_ok, cnt_junk, cnt_crc, out, err, prev >>

\* u == s of Python 2 for a unicode character u and a one-byte string s: s
\* is decoded as ASCII for the comparison, and a byte that is not ASCII
\* makes the two unequal
UnicodeEqualsByte(u, b) == b < 128 /\ u.codepoint = b

\* lines 192-193: not (chr(MAVLINK_MAGIC) != next_magic), next_magic the
\* byte after the frame.  MAVLINK_MAGIC is not ASCII, so this is never true.
NextIsMagic(d) ==
    UnicodeEqualsByte(chr(MAVLINK_MAGIC),
                      d[PktLength(parse_header(d).plength) + 1])

\* Retry dropping the whole proposed frame instead of one byte
Retry_SkipsFrame ==
    /\ pc = "frame"
    /\ FrameComplete(data)
    /\ ~RaisesIndexError(data)
    /\ ~NextIsMagic(data)
    /\ skipped_char' = << data[1] >>
    /\ data' = SliceFrom(data, PktLength(parse_header(data).plength))
    /\ pc' = "loop"
    /\ UNCHANGED << endian, input, stream, i, done, junk, cnt_ok, cnt_junk,
                    cnt_crc, out, err, prev >>

\* lines 193-200: the byte after the frame is not the sentinel: stow the
\* first byte, drop it, next iteration
Retry ==
    /\ pc = "frame"
    /\ FrameComplete(data)
    /\ ~RaisesIndexError(data)
    /\ ~NextIsMagic(data)
    /\ skipped_char' = << data[1] >>
    /\ data' = SliceFrom(data, 1)
    /\ pc' = "loop"
    /\ UNCHANGED << endian, input, stream, i, done, junk, cnt_ok, cnt_junk,
                    cnt_crc, out, err, prev >>

\* lines 202-211: write the frame with its crc flag, count it.  Its guard
\* NextIsMagic never holds, so the script never gets here and Packet is not
\* a step of Next.
Packet ==
    /\ pc = "frame"
    /\ FrameComplete(data)
    /\ ~RaisesIndexError(data)
    /\ NextIsMagic(data)
    /\ LET header == parse_header(data)
           pkt_length == PktLength(header.plength)
           crc_flag == CrcFlag(data, header)
           pkt == Slice(data, 0, pkt_length)
       IN  /\ stream' = stream \o write_packet(endian, i, pkt, crc_flag, Len(pkt))
           /\ out' = Append(out, Unit(i, pkt, crc_flag, Len(pkt)))
           /\ data' = SliceFrom(data, pkt_length)
           /\ IF crc_flag # 0
              THEN cnt_crc' = cnt_crc + 1 /\ UNCHANGED cnt_ok
              ELSE cnt_ok' = cnt_ok + 1 /\ UNCHANGED cnt_crc
    /\ pc' = "loop"
    /\ UNCHANGED << endian, input, i, done, skipped_char, junk, cnt_junk,
                    err, prev >>

\* line 217: the divisor of the junk percentage
StatsTotal == cnt_junk + cnt_ok + cnt_crc

\* line 217: the statistics line is printed, the script ends
Statistics ==
    /\ pc = "loop"
    /\ done
    /\ StatsTotal # 0
    /\ pc' = "exit"
    /\ UNCHANGED << endian, input, stream, conv, out, err, prev >>

\* line 217: division by zero when nothing was counted
StatisticsError ==
    /\ pc = "loop"
    /\ done
    /\ StatsTotal = 0
    /\ err' = "ZeroDivisionError"
    /\ pc' = "crashed"
    /\ UNCHANGED << endian, input, stream, conv, out, prev >>

Next ==
    \/ OpenPcap
    \/ ReadInput
    \/ SkipJunk
    \/ NoJunk
    \/ HeaderError
    \/ NoMoreData
    \/ NoMorePackets
    \/ Retry
    \/ Statistics
    \/ StatisticsError

Spec == Init /\ [][Next]_vars

(***************************************************************************)
(* What the format says of the bytes at the cursor, stated on the bytes.   *)
(***************************************************************************)
\* d starts with the sentinel and holds all 6 + payload_length + 2 bytes
\* of the frame its length byte announces
HoldsFrame(d) ==
    /\ Len(d) >= 8
    /\ d[1] = MAVLINK_MAGIC
    /\ Len(d) >= 8 + d[2]

\* the frame at the start of d, and what follows it
FrameBytes(d) == SubSeq(d, 1, 8 + d[2])
AfterFrame(d) == SubSeq(d, 9 + d[2], Len(d))

\* the 2-byte little-endian checksum field of the frame at the start of d
\* equals the X.25 CRC of its bytes after the sentinel and of the seed byte
ChecksumCorrect(d) ==
    d[7 + d[2]] + 256 * d[8 + d[2]] =
        Accumulate(Accumulate(X25_INIT_CRC, SubSeq(d, 2, 6 + d[2])),
                   << MAVLINK_MESSAGE_CRCS[d[6] + 1] >>)

\* the byte right after the frame at the start of d exists and is the sentinel
FollowedBySentinel(d) ==
    /\ Len(d) > 8 + d[2]
    /\ d[9 + d[2]] = MAVLINK_MAGIC

\* the frame at the start of d is the last thing in d
EndsBuffer(d) == Len(d) = 8 + d[2]

(***************************************************************************)
(* A second run of the script on a damaged copy of the file: the input of  *)
(* the first run is a stream of back-to-back well-formed frames, one       *)
(* payload byte of it is replaced by another value, and the script is run  *)
(* again from the start.  prev keeps the first run's input and write log.  *)
(***************************************************************************)
\* s is a concatenation of complete frames with correct checksums
RECURSIVE IsFrameStream(_)
IsFrameStream(s) ==
    \/ s = << >>
    \/ /\ HoldsFrame(s)
       /\ ChecksumCorrect(s)
       /\ IsFrameStream(AfterFrame(s))

\* the frames of a frame stream, in order
RECURSIVE FramesOf(_)
FramesOf(s) ==
    IF s = << >> THEN << >>
    ELSE << FrameBytes(s) >> \o FramesOf(AfterFrame(s))

\* 0-based offset in the stream of frame f of a sequence of frames
RECURSIVE FrameOffset(_, _)
FrameOffset(frames, f) ==
    IF f = 1 THEN 0 ELSE FrameOffset(frames, f - 1) + Len(frames[f - 1])

\* 1-based positions of the payload bytes of a frame stream
PayloadPositions(s) ==
    LET frames == FramesOf(s)
    IN  { k \in 1..Len(s) :
              \E f \in 1..Len(frames) :
                  /\ k > FrameOffset(frames, f) + 6
                  /\ k <= FrameOffset(frames, f) + Len(frames[f]) - 2 }

\* the values a damaged byte b may take
DamagedValues(b) == { 0, MAVLINK_MAGIC, (b + 1) % 256 } \ { b }

Rerun ==
    /\ pc \in { "exit", "crashed" }
    /\ prev = << >>
    /\ input # << >>
    /\ IsFrameStream(input)
    /\ \E k \in PayloadPositions(input) :
           \E v \in DamagedValues(input[k]) :
               input' = [input EXCEPT ![k] = v]
    /\ prev' = << [input |-> input, out |-> out] >>
    /\ pc' = "start"
    /\ stream' = << >>
    /\ data' = << >>
    /\ i' = 0
    /\ done' = FALSE
    /\ skipped_char' = None
    /\ junk' = << >>
    /\ cnt_ok' = 0
    /\ cnt_junk' = 0
    /\ cnt_crc' = 0
    /\ out' = << >>
    /\ err' = ""
    /\ UNCHANGED endian

NextRerun == Next \/ Rerun

SpecRerun == Init /\ [][NextRerun]_vars

(***************************************************************************)
(* The container on its own: records are written through write_packet     *)
(* into a fresh container, then the container is opened for reading with   *)
(* pcap(stream), the read mode of the class.                               *)
(***************************************************************************)
\* what the records written carry
PcapNumbers == { 1, 258 }
PcapFlags == { 0, 1, 3 }
PcapData == { << >>, << 0 >>, << MAVLINK_MAGIC, 0, 7 >> }

InitPcap ==
    /\ pc = "writing"
    /\ endian \in { "<", ">" }
    /\ input = << >>
    /\ stream = PcapHeader(endian)
    /\ data = << >>
    /\ i = 0
    /\ done = FALSE
    /\ skipped_char = None
    /\ junk = << >>
    /\ cnt_ok = 0
    /\ cnt_junk = 0
    /\ cnt_crc = 0
    /\ out = << >>
    /\ err = ""
    /\ prev = << >>

\* write_packet(number, data, flags, len(data)) as convert_file calls it
WriteRecord ==
    /\ pc = "writing"
    /\ Len(out) < MaxUnits
    /\ \E number \in PcapNumbers, flags \in PcapFlags, d \in PcapData :
           /\ stream' = stream \o write_packet(endian, number, d, flags, Len(d))
           /\ out' = Append(out, Unit(number, d, flags, Len(d)))
    /\ UNCHANGED << pc, endian, input, conv, err, prev >>

\* pcap.__init__ on the container written, lines 51-64: read(24) returns the
\* header, so this is read mode, and its first statement, self._endian =
\* pcap.None, raises AttributeError: no pcap object results and lines 65-77
\* and read() are never reached
StartReading ==
    /\ pc = "writing"
    /\ Slice(stream, 0, 24) # << >>
    /\ err' = "AttributeError"
    /\ pc' = "crashed"
    /\ UNCHANGED << endian, input, stream, conv, out, prev >>

NextPcap == WriteRecord \/ StartReading

SpecPcap == InitPcap /\ [][NextPcap]_vars

\* pcap.__iter__, lines 110-115: the records read() returns from stream
\* position pos on, until it returns None
RECURSIVE ReadAll(_, _, _)
ReadAll(e, strm, pos) ==
    LET r == PcapRead(e, strm, pos)
    IN  IF r.ret = << >> THEN << >>
        ELSE << r.ret >> \o ReadAll(e, strm, r.pos)

(***************************************************************************)
(* Helpers of the properties.                                              *)
(***************************************************************************)
\* the raw bytes of a sequence of written units, concatenated in order
RECURSIVE ConcatUnits(_)
ConcatUnits(units) ==
    IF units = << >> THEN << >>
    ELSE Head(units).data \o ConcatUnits(Tail(units))

\* the summed byte length of a sequence of written units
RECURSIVE SumLen(_)
SumLen(units) ==
    IF units = << >> THEN 0 ELSE Len(Head(units).data) + SumLen(Tail(units))

Last(s) == s[Len(s)]

\* the while loop of convert_file has ended
LoopEnded == pc = "loop" /\ done

(***************************************************************************)
(* C1: when convert_file's loop ends, the bytes of all emitted units,      *)
(* concatenated in emission order, are the input without its final         *)
(* unparsed tail: every consumed byte is in exactly one unit, in place.    *)
(* Violated: the junk string is rebuilt only when a skipped byte is        *)
(* pending (lines 164-166), so skipped bytes are otherwise not written.    *)
(***************************************************************************)
C1_EmittedBytesCoverConsumedInput ==
    LoopEnded => ConcatUnits(out) \o data = input

(***************************************************************************)
(* C2: at every iteration boundary and at termination, emitted bytes +     *)
(* pending skipped byte + unconsumed bytes = input bytes.                  *)
(* Violated for the same reason as C1.                                     *)
(***************************************************************************)
C2_ByteAccounting ==
    pc = "loop" => SumLen(out) + Len(skipped_char) + Len(data) = Len(input)

(***************************************************************************)
(* C3: when the search finds the sentinel at offset k > 0, the iteration   *)
(* writes one junk unit (flag 3) made of the pending skipped byte, if any, *)
(* followed by exactly the k bytes before the sentinel.                    *)
(* Violated when no skipped byte is pending: the old junk string is        *)
(* written instead.                                                        *)
(***************************************************************************)
C3_JunkIsSkippedBytes ==
    [][ (pc = "loop" /\ ~done /\ find_next_frame(data) > 0)
        => /\ Len(out') = Len(out) + 1
           /\ Last(out').flags = 3
           /\ Last(out').data =
                  skipped_char \o SubSeq(data, 1, find_next_frame(data)) ]_vars

(***************************************************************************)
(* C4: with the cursor at a frame whose length and checksum are correct    *)
(* and which is followed by the sentinel, the iteration skips nothing,     *)
(* writes the frame as Valid (flag 0, 6 + payload_length + 2 bytes),       *)
(* increments cnt_ok, and leaves the cursor at the following sentinel.     *)
(* Violated: line 193 compares the unicode character chr(MAVLINK_MAGIC)    *)
(* with the byte after the frame; the two are never equal, so the frame is *)
(* not written and the attempt is a resync step.                           *)
(***************************************************************************)
C4_ValidFrameEmitted ==
    [][ /\ ( /\ pc = "loop" /\ ~done
             /\ HoldsFrame(data) /\ FollowedBySentinel(data)
             /\ ChecksumCorrect(data) )
           => (pc' = "frame" /\ data' = data /\ out' = out /\ i' = i + 1)
        /\ ( /\ pc = "frame"
             /\ HoldsFrame(data) /\ FollowedBySentinel(data)
             /\ ChecksumCorrect(data) )
           => /\ out' = Append(out, [number |-> i, data |-> FrameBytes(data),
                                     flags |-> 0, pkt_length |-> 8 + data[2]])
              /\ cnt_ok' = cnt_ok + 1
              /\ cnt_crc' = cnt_crc
              /\ cnt_junk' = cnt_junk
              /\ data' = AfterFrame(data)
              /\ find_next_frame(data') = 0
              /\ pc' = "loop" /\ ~done' ]_vars

(***************************************************************************)
(* C5 as stated: a frame with correct length and checksum that ends        *)
(* exactly at the end of the buffer is emitted as Valid; so the loop never *)
(* ends with such a frame left unconsumed at the cursor.                   *)
(***************************************************************************)
C5_FrameAtEndIsEmitted ==
    LoopEnded => ~(HoldsFrame(data) /\ EndsBuffer(data) /\ ChecksumCorrect(data))

\* input is k >= 1 non-sentinel bytes followed by one correct frame
JunkThenFrame(s) ==
    \E k \in 1..Len(s) :
        /\ \A m \in 1..k : s[m] # MAVLINK_MAGIC
        /\ LET d == SubSeq(s, k + 1, Len(s))
           IN  HoldsFrame(d) /\ EndsBuffer(d) /\ ChecksumCorrect(d)

(***************************************************************************)
(* C5 amended: a frame with correct length and checksum that ends exactly  *)
(* at the end of the buffer is not emitted: the attempt ends the pass      *)
(* (done) writing nothing, consuming nothing and counting nothing; for an  *)
(* input of junk followed by such a frame the loop ends with the one junk  *)
(* unit as the only unit written.                                          *)
(***************************************************************************)
C5_FrameAtEndEndsPass ==
    [][ /\ ( /\ pc = "frame"
             /\ HoldsFrame(data) /\ EndsBuffer(data) /\ ChecksumCorrect(data) )
           => /\ done' /\ pc' = "loop"
              /\ out' = out /\ stream' = stream /\ data' = data
              /\ cnt_ok' = cnt_ok /\ cnt_crc' = cnt_crc /\ cnt_junk' = cnt_junk
        /\ (pc' = "loop" /\ done' /\ JunkThenFrame(input))
           => (Len(out') = 1 /\ out'[1].flags = 3 /\ cnt_ok' = 0) ]_vars

\* the loop has ended on a correct frame at the end of the buffer, after junk
C5_Witness ==
    /\ LoopEnded
    /\ HoldsFrame(data) /\ EndsBuffer(data) /\ ChecksumCorrect(data)
    /\ JunkThenFrame(input)
    /\ Len(out) = 1

(***************************************************************************)
(* C6: whatever the input, the extraction never ends in an unhandled       *)
(* error.  Violated: parse_header (line 173) is called outside the try     *)
(* blocks, so its FieldError and ConstError end the script.                *)
(***************************************************************************)
C6_NoUnhandledError ==
    ~(pc = "crashed" /\ err \in { "FieldError", "ConstError" })

(***************************************************************************)
(* C7: when fewer than 6 bytes remain at the cursor, or the header claims  *)
(* more bytes than remain, the pass ends cleanly and raises nothing.       *)
(* Violated in its first case: parse_header raises FieldError on a short   *)
(* header outside the try blocks.                                          *)
(***************************************************************************)
C7_ShortTailEndsCleanly ==
    (Len(data) < 6 \/ (data[1] = MAVLINK_MAGIC /\ Len(data) < 8 + data[2]))
        => ~(pc = "crashed" /\ err \in { "FieldError", "ConstError" })

(***************************************************************************)
(* C8: a proposed frame is written exactly when the byte after it is the   *)
(* sentinel, whatever its checksum: with a matching checksum as flag 0     *)
(* counted in cnt_ok, otherwise as flag 1 counted in cnt_crc; a checksum   *)
(* mismatch never drops the frame or causes a resync step.                 *)
(* Violated: a frame followed by the sentinel is not written, whatever its *)
(* checksum (the comparison of line 193 never finds the sentinel, as for   *)
(* C4).                                                                    *)
(***************************************************************************)
C8_EmissionIndependentOfChecksum ==
    [][ (pc = "frame" /\ HoldsFrame(data) /\ ~EndsBuffer(data))
        => IF FollowedBySentinel(data)
           THEN LET flag == IF ChecksumCorrect(data) THEN 0 ELSE 1
                IN  /\ out' = Append(out, [number |-> i,
                                           data |-> FrameBytes(data),
                                           flags |-> flag,
                                           pkt_length |-> 8 + data[2]])
                    /\ data' = AfterFrame(data)
                    /\ skipped_char' = skipped_char
                    /\ cnt_ok' = cnt_ok + (1 - flag)
                    /\ cnt_crc' = cnt_crc + flag
                    /\ cnt_junk' = cnt_junk
           ELSE out' = out /\ cnt_ok' = cnt_ok /\ cnt_crc' = cnt_crc ]_vars

(***************************************************************************)
(* C9: in a stream of back-to-back well-formed frames, replacing one       *)
(* payload byte of a frame that is followed by the next frame, with length *)
(* and checksum fields untouched, makes the second run write that frame    *)
(* with flag 1 (ChecksumMismatch), while every other frame the first run   *)
(* wrote as Valid is written again as Valid, same bytes, same place.       *)
(* Violated: no run writes a frame with flag 1 (or 0): every frame that is *)
(* followed by the next one ends in a resync step (as for C4) and its      *)
(* bytes are written as junk, if at all.                                   *)
(***************************************************************************)
\* the script has ended, one way or the other
RunOver == pc \in { "exit", "crashed" }

\* the position where the damaged file differs from the original
DamagedAt(orig, now) == CHOOSE k \in 1..Len(orig) : orig[k] # now[k]

\* the frame of the stream that holds position k
FrameHolding(frames, k) ==
    CHOOSE f \in 1..Len(frames) :
        /\ k > FrameOffset(frames, f)
        /\ k <= FrameOffset(frames, f) + Len(frames[f])

C9_OneDamagedPayloadByte ==
    (RunOver /\ prev # << >>) =>
        LET orig == prev[1].input
            first == prev[1].out
            frames == FramesOf(orig)
            f == FrameHolding(frames, DamagedAt(orig, input))
            damaged == SubSeq(input, FrameOffset(frames, f) + 1,
                              FrameOffset(frames, f) + Len(frames[f]))
        IN  /\ f < Len(frames) =>
                   /\ Len(out) >= f
                   /\ out[f].flags = 1
                   /\ out[f].data = damaged
                   /\ damaged # frames[f]
            /\ \A j \in 1..Len(first) :
                   (first[j].flags = 0 /\ j # f) =>
                       /\ first[j].data = frames[j]
                       /\ Len(out) >= j
                       /\ out[j] = first[j]

(***************************************************************************)
(* C10: round trip of the container.  Once N records were written through  *)
(* write_packet and the container has been opened for reading, no error    *)
(* was raised and reading from the end of the header yields exactly the N   *)
(* records, in order, each with the sequence index, flag, length and bytes  *)
(* that were written.                                                      *)
(* Violated: opening the container for reading raises AttributeError at     *)
(* line 64 (self._endian = pcap.None), whatever was written.                *)
(***************************************************************************)
C10_ContainerRoundTrip ==
    pc # "writing" =>
        /\ err = ""
        /\ ReadAll(endian, stream, 24) =
               [k \in 1..Len(out) |->
                   << << out[k].number, out[k].flags, Len(out[k].data) >>,
                      out[k].data >>]

(***************************************************************************)
(* C11: every record convert_file writes carries, in both length fields of *)
(* its 16-byte header, the number of raw bytes that follow the header, and *)
(* those bytes are the unit's bytes, whole and in order.                   *)
(***************************************************************************)
\* the 32-bit field at 0-based offset off of the stream, in the file's byte order
FieldAt(strm, off) == Unpack32(endian, SubSeq(strm, off + 1, off + 4))

\* from 0-based position pos on, the stream holds exactly the records of units
RECURSIVE RecordsOk(_, _, _)
RecordsOk(strm, pos, units) ==
    IF units = << >> THEN pos = Len(strm)
    ELSE LET n == Len(Head(units).data)
         IN  /\ Len(strm) >= pos + 16 + n
             /\ FieldAt(strm, pos + 8) = n
             /\ FieldAt(strm, pos + 12) = n
             /\ SubSeq(strm, pos + 17, pos + 16 + n) = Head(units).data
             /\ RecordsOk(strm, pos + 16 + n, Tail(units))

C11_RecordLengthsMatchBytes ==
    pc # "start" => RecordsOk(stream, 24, out)

\* a record of more than 8 bytes and a record of no bytes have been written
C11_Witness ==
    /\ Len(out) >= 2
    /\ \E k \in 1..Len(out) : out[k].flags = 3 /\ Len(out[k].data) > 8
    /\ \E k \in 1..Len(out) : out[k].data = << >>
    /\ Len(stream) > 24 + 32

(***************************************************************************)
(* C12: on the fresh sink the 24-byte container header (magic 0xA1B2C3D4,  *)
(* version 2.4, zone 0, sigfigs 0, snaplen 65535, linktype 147) is the     *)
(* first thing written, before any record, and it is written once: every   *)
(* later write appends exactly one record and leaves what was written.     *)
(***************************************************************************)
\* the header bytes in the two byte orders
HeaderBytes(e) ==
    IF e = "<"
    THEN << 212, 195, 178, 161, 2, 0, 4, 0, 0, 0, 0, 0, 0, 0, 0, 0,
            255, 255, 0, 0, 147, 0, 0, 0 >>
    ELSE << 161, 178, 195, 212, 0, 2, 0, 4, 0, 0, 0, 0, 0, 0, 0, 0,
            0, 0, 255, 255, 0, 0, 0, 147 >>

C12_HeaderOnceBeforeRecords ==
    [][ /\ (stream = << >> /\ stream' # stream)
           => (stream' = HeaderBytes(endian) /\ out = << >> /\ out' = out)
        /\ (Len(out') > Len(out))
           => /\ Len(stream) >= 24
              /\ SubSeq(stream', 1, 24) = HeaderBytes(endian)
              /\ SubSeq(stream', 1, Len(stream)) = stream
              /\ Len(stream') = Len(stream) + 16 + Len(Last(out').data)
        /\ (stream # << >> /\ stream' # stream)
           => Len(out') = Len(out) + 1 ]_vars

\* the header and two records are in the stream
C12_Witness ==
    /\ Len(out) = 2
    /\ SubSeq(stream, 1, 24) = HeaderBytes(endian)
    /\ Len(stream) = 24 + 32 + Len(out[1].data) + Len(out[2].data)

(***************************************************************************)
(* C13: the index written as a record's timestamp seconds is the 1-based   *)
(* number of the loop iteration that wrote it; the index advances by one   *)
(* on every iteration, also on those that write nothing, so the indices of *)
(* the records never decrease.                                             *)
(***************************************************************************)
C13_IndexIsIterationNumber ==
    [][ /\ (pc = "convert") => (i' = 0)
        /\ (pc = "loop" /\ ~done) => (i' = i + 1 /\ pc' = "frame")
        /\ (pc = "frame") => (i' = i)
        /\ (Len(out') > Len(out))
           => /\ Last(out').number = i'
              /\ FieldAt(stream', Len(stream)) = i'
              /\ \A k \in 1..Len(out) : out[k].number <= Last(out').number ]_vars

\* the first two iterations wrote nothing (two resync steps), the third
\* wrote a junk unit with index 3, and a later one a unit with a larger index
C13_Witness ==
    /\ Len(out) >= 2
    /\ out[1].number = 3 /\ out[1].flags = 3
    /\ out[2].number > 3
    /\ i = out[2].number

(***************************************************************************)
(* C14: when all bytes of a proposed frame are there and the byte after it *)
(* exists and is not the sentinel, the attempt writes nothing and changes  *)
(* no counter, the cursor moves by exactly one byte, the first byte of the *)
(* candidate becomes the pending skipped byte, and the loop goes on with   *)
(* the search.                                                             *)
(***************************************************************************)
C14_ResyncStep ==
    [][ ( /\ pc = "frame"
          /\ HoldsFrame(data)
          /\ Len(data) > 8 + data[2]
          /\ data[9 + data[2]] # MAVLINK_MAGIC )
        => /\ out' = out /\ stream' = stream
           /\ cnt_ok' = cnt_ok /\ cnt_crc' = cnt_crc /\ cnt_junk' = cnt_junk
           /\ data' = SubSeq(data, 2, Len(data))
           /\ skipped_char' = << data[1] >>
           /\ pc' = "loop" /\ ~done' /\ i' = i ]_vars

\* a resync step was taken on a candidate of more than 8 bytes: one byte
\* is consumed and pending, nothing is written
C14_Witness ==
    /\ pc = "loop"
    /\ skipped_char = << MAVLINK_MAGIC >>
    /\ out = << >>
    /\ Len(data) = Len(input) - 1
    /\ Len(input) > 10
    /\ input[2] > 0

(***************************************************************************)
(* C15: a byte stowed by a resync step is never lost.  While it is pending *)
(* a step either writes the next junk unit, with the pending byte first,   *)
(* and clears the slot; or is another resync step, after which the earlier *)
(* byte is still pending next to the new one; or leaves the slot alone.    *)
(* Violated: line 198 assigns skipped_char whatever it holds, so the       *)
(* second of two resync steps in a row drops the byte of the first.        *)
(***************************************************************************)
C15_OrphanNeverLost ==
    [][ (skipped_char # None) =>
            IF Len(out') > Len(out) /\ Last(out').flags = 3
            THEN /\ Last(out').data # << >>
                 /\ Last(out').data[1] = skipped_char[1]
                 /\ skipped_char' = None
            ELSE IF pc = "frame" /\ out' = out /\ data' = SubSeq(data, 2, Len(data))
            THEN /\ Len(skipped_char') = Len(skipped_char) + 1
                 /\ SubSeq(skipped_char', 1, Len(skipped_char)) = skipped_char
            ELSE skipped_char' = skipped_char ]_vars

(***************************************************************************)
(* C16: no truncated frame is written.  A candidate whose announced length *)
(* runs past the end of the buffer ends the pass with nothing written and  *)
(* nothing counted; and every unit written with flag 0 or 1 starts with    *)
(* the sentinel, is 6 + payload_length + 2 bytes long by its own second    *)
(* byte, is the stretch of the input at the cursor, lies inside the input, *)
(* and is followed in the input by a sentinel.                             *)
(***************************************************************************)
\* d starts with a whole header that announces more bytes than d holds
Truncated(d) ==
    /\ Len(d) >= 6
    /\ d[1] = MAVLINK_MAGIC
    /\ Len(d) < 8 + d[2]

C16_NoTruncatedFrame ==
    [][ /\ (pc = "frame" /\ Truncated(data))
           => /\ out' = out /\ stream' = stream
              /\ cnt_ok' = cnt_ok /\ cnt_crc' = cnt_crc /\ cnt_junk' = cnt_junk
              /\ done' /\ pc' = "loop"
        /\ (Len(out') > Len(out) /\ Last(out').flags \in { 0, 1 })
           => LET u == Last(out').data
                  off == Len(input) - Len(data)
              IN  /\ Len(u) >= 8
                  /\ u[1] = MAVLINK_MAGIC
                  /\ Len(u) = 6 + u[2] + 2
                  /\ off + Len(u) < Len(input)
                  /\ u = SubSeq(input, off + 1, off + Len(u))
                  /\ input[off + Len(u) + 1] = MAVLINK_MAGIC ]_vars

\* the pass has ended on a truncated candidate that follows other bytes, and
\* none of the units written carries flag 0 or 1
C16_Witness ==
    /\ LoopEnded
    /\ Truncated(data)
    /\ Len(input) > Len(data)
    /\ out # << >>
    /\ \A k \in 1..Len(out) : out[k].flags = 3

(***************************************************************************)
(* C17: whenever convert_file calls parse_header the byte at the cursor is *)
(* the sentinel; data without a sentinel is rejected before the parse.     *)
(* Violated: when the search returns -1 (or data is empty) line 173 parses *)
(* the header all the same, and the parse raises.                          *)
(***************************************************************************)
C17_HeaderParsedOnlyAtSentinel ==
    pc = "frame" => (data # << >> /\ data[1] = MAVLINK_MAGIC)

(***************************************************************************)
(* C18: the loop ends for every input: it runs at most len(input) + 1      *)
(* iterations and ends with done set.                                      *)
(* Violated in its second part: an iteration whose header parse raises     *)
(* (C6) ends the loop without done.                                        *)
(***************************************************************************)
C18_LoopEndsWithDone ==
    /\ i <= Len(input) + 1
    /\ (pc \in { "exit", "crashed" } => done)

(***************************************************************************)
(* C19: the seed lookup never fails and never ends the pass: every message *)
(* id 0..255 a header can carry has a seed byte in the table, so a frame   *)
(* attempt with a byte after the frame never ends the loop.                *)
(***************************************************************************)
C19_SeedLookupNeverFails ==
    [][ (pc = "frame" /\ HoldsFrame(data))
        => /\ data[6] + 1 \in DOMAIN MAVLINK_MESSAGE_CRCS
           /\ MAVLINK_MESSAGE_CRCS[data[6] + 1] \in 0..255
           /\ (Len(data) > 8 + data[2]) => (~done' /\ pc' = "loop") ]_vars

\* the attempt at a frame with message id 255, whose seed is 0, followed by
\* another byte, has been made and the loop goes on
C19_Witness ==
    /\ pc = "loop"
    /\ ~done
    /\ i = 1
    /\ Len(input) > 8
    /\ SubSeq(input, 1, 8) = FrameSeedless
    /\ data = Tail(input)
    /\ MAVLINK_MESSAGE_CRCS[SeedlessId + 1] = 0

(***************************************************************************)
(* C20: when the statistics are computed after the loop, the divisor       *)
(* cnt_junk + cnt_ok + cnt_crc is greater than zero.                       *)
(* Violated: a pass that counted nothing (a single complete frame with no  *)
(* byte after it) divides by zero at line 217.                             *)
(***************************************************************************)
C20_StatsDivisorPositive ==
    LoopEnded => cnt_junk + cnt_ok + cnt_crc > 0

====
